---- MODULE Spec2Model ----
(***************************************************************************)
(* Address-book service: the contact store (models.py), the CRUD core      *)
(* (crud.py) and the HTTP handlers that wrap it (main.py, database.py).    *)
(*                                                                         *)
(* Strings are tuples of one-character strings, so that lower() is a real  *)
(* conversion.  Python's None is the value None below, which is not a      *)
(* string of the model (its only element is not a single character).      *)
(* Surrogate row ids of phone_numbers and addresses are not observable by  *)
(* any operation other than the response body, so these two tables are     *)
(* bags of rows; contacts and tags keep their ids.                         *)
(***************************************************************************)
EXTENDS Integers, Sequences, FiniteSets, Bags, TLC

VARIABLES contacts, phone_numbers, addresses, tags, contact_tag_association,
          response, inflight, session

vars == <<contacts, phone_numbers, addresses, tags, contact_tag_association,
          response, inflight, session>>

(***************************************************************************)
(* Bounds and input domains                                                *)
(***************************************************************************)
\* contact ids are handed out as max(id)+1; creation stops at this id
MaxContactId == 2

None == <<"None">>
\* None in a field of type Optional[List[...]]: not a list any body can hold
NoList == <<None>>

ContactIds == 1..MaxContactId
\* ids a request may name: every id that can exist and one that never does
RequestIds == 1..(MaxContactId + 1)

Names == {<<"J">>}
Phones == {<<"1">>, <<"2">>}
Addrs == {<<"x">>, <<"y">>}
TagNames == {<<"F">>, <<"f">>, <<"w">>}

Range(s) == {s[i] : i \in DOMAIN s}

(***************************************************************************)
(* The store: the five relations of models.py                              *)
(***************************************************************************)
\* the database as one value: committed state, or the view of a transaction
Store == [contacts |-> contacts, phone_numbers |-> phone_numbers,
          addresses |-> addresses, tags |-> tags,
          contact_tag_association |-> contact_tag_association]

EmptyStore == [contacts |-> <<>>, phone_numbers |-> EmptyBag,
               addresses |-> EmptyBag, tags |-> <<>>,
               contact_tag_association |-> EmptyBag]

\* class Contact: a row of the contacts table (its id is the key of contacts)
Contact(name, email, phone) ==
    [name |-> name, email |-> email, phone |-> phone, address |-> None]

\* class PhoneNumber
PhoneNumber(contact_id, number) == [contact_id |-> contact_id, number |-> number]

\* class Address
Address(contact_id, address) == [contact_id |-> contact_id, address |-> address]

\* a row of contact_tag_association
TagLink(contact_id, tag_id) == [contact_id |-> contact_id, tag_id |-> tag_id]

\* the bag holding the elements of a sequence, with their multiplicities
SeqToBag(s) == [r \in Range(s) |-> Cardinality({i \in DOMAIN s : s[i] = r})]

\* mutant: the DELETE has lost its WHERE clause
DeleteOwned_unfiltered(table, contact_id) ==
    [r \in {x \in DOMAIN table : FALSE} |-> table[r]]

\* DELETE FROM table WHERE contact_id = :contact_id
DeleteOwned(table, contact_id) ==
    [r \in {x \in DOMAIN table : x.contact_id # contact_id} |-> table[r]]

\* mutant: the phone_numbers table without its unique constraint
unique_phone_number_dropped(db) == TRUE

\* UniqueConstraint('number', name='unique_phone_number')
unique_phone_number(db) ==
    \A r1, r2 \in DOMAIN db.phone_numbers :
        /\ db.phone_numbers[r1] = 1
        /\ r1.number = r2.number => r1 = r2

\* UniqueConstraint('address', name='unique_address')
unique_address(db) ==
    \A r1, r2 \in DOMAIN db.addresses :
        /\ db.addresses[r1] = 1
        /\ r1.address = r2.address => r1 = r2

\* Tag.name: Column(String, unique=True)
unique_tag_name(db) ==
    \A i, j \in DOMAIN db.tags : db.tags[i] = db.tags[j] => i = j

\* contact_tag_association: (contact_id, tag_id) is the primary key
association_primary_key(db) ==
    \A l \in DOMAIN db.contact_tag_association :
        db.contact_tag_association[l] = 1

\* mutant: a flush that writes its rows with no constraint checked
ConstraintsHold_unchecked(db) == TRUE

\* the constraints the storage layer enforces when a flush writes rows
ConstraintsHold(db) ==
    /\ unique_phone_number(db)
    /\ unique_address(db)
    /\ unique_tag_name(db)
    /\ association_primary_key(db)

(***************************************************************************)
(* String helpers                                                          *)
(***************************************************************************)
LowerChar(c) ==
    CASE c = "F" -> "f"
      [] c = "W" -> "w"
      [] c = "J" -> "j"
      [] OTHER -> c

\* str.lower()
lower(s) == [i \in DOMAIN s |-> LowerChar(s[i])]

\* Python truthiness of an Optional[str]: None and "" are falsy
Truthy(s) == s # None /\ s # <<>>


(***************************************************************************)
(* crud.py: the uniqueness validator                                       *)
(***************************************************************************)
\* mutant: the contact being updated is not excluded from the search
check_phone_number_exists_no_exclusion(db, phone_number, exclude_contact_id) ==
    IF ~Truthy(phone_number) THEN FALSE
    ELSE \/ \E id \in DOMAIN db.contacts : db.contacts[id].phone = phone_number
         \/ \E r \in DOMAIN db.phone_numbers : r.number = phone_number

\* mutant: only Contact.phone is searched, the PhoneNumber table is not
check_phone_number_exists_scalar_only(db, phone_number, exclude_contact_id) ==
    IF ~Truthy(phone_number) THEN FALSE
    ELSE \E id \in DOMAIN db.contacts :
            /\ db.contacts[id].phone = phone_number
            /\ (exclude_contact_id # 0 => id # exclude_contact_id)

\* exclude_contact_id = 0 stands for the default None (both are falsy in
\* "if exclude_contact_id:")
check_phone_number_exists(db, phone_number, exclude_contact_id) ==
    IF ~Truthy(phone_number) THEN FALSE
    ELSE \/ \E id \in DOMAIN db.contacts :
               /\ db.contacts[id].phone = phone_number
               /\ (exclude_contact_id # 0 => id # exclude_contact_id)
         \/ \E r \in DOMAIN db.phone_numbers :
               /\ r.number = phone_number
               /\ (exclude_contact_id # 0 => r.contact_id # exclude_contact_id)

\* mutant: the rows of the excluded contact are searched too
check_address_exists_no_exclusion(db, address, exclude_contact_id) ==
    IF ~Truthy(address) THEN FALSE
    ELSE \/ \E id \in DOMAIN db.contacts : db.contacts[id].address = address
         \/ \E r \in DOMAIN db.addresses : r.address = address

\* mutant: only Contact.address is searched, the Address table is not
check_address_exists_scalar_only(db, address, exclude_contact_id) ==
    IF ~Truthy(address) THEN FALSE
    ELSE \E id \in DOMAIN db.contacts :
            /\ db.contacts[id].address = address
            /\ (exclude_contact_id # 0 => id # exclude_contact_id)

check_address_exists(db, address, exclude_contact_id) ==
    IF ~Truthy(address) THEN FALSE
    ELSE \/ \E id \in DOMAIN db.contacts :
               /\ db.contacts[id].address = address
               /\ (exclude_contact_id # 0 => id # exclude_contact_id)
         \/ \E r \in DOMAIN db.addresses :
               /\ r.address = address
               /\ (exclude_contact_id # 0 => r.contact_id # exclude_contact_id)

(***************************************************************************)
(* The session: autocommit=False, autoflush=False (database.py).  Objects  *)
(* added with db.add() stay pending, invisible to queries, until the flush *)
(* that db.commit() performs; Query.delete() runs at once inside the       *)
(* transaction.                                                            *)
(***************************************************************************)
\* nothing pending in the session
NoPending == [attrs |-> <<>>, phone_numbers |-> <<>>, addresses |-> <<>>,
              new_tags |-> <<>>, tags_of |-> <<>>]

\* mutant: the tag name is looked up and stored as given, not lowercased
ResolveTags_as_given(db, tag_names) ==
    LET IsNew(i) == tag_names[i] \notin Range(db.tags)
        NewUpTo(i) == Cardinality({j \in 1..i : IsNew(j)})
    IN  [new_tags |-> SelectSeq(tag_names, LAMBDA n : n \notin Range(db.tags)),
         tag_ids  |-> [i \in DOMAIN tag_names |->
                         IF IsNew(i) THEN Len(db.tags) + NewUpTo(i)
                         ELSE CHOOSE t \in DOMAIN db.tags : db.tags[t] = tag_names[i]]]

\* the for-loop "db_tag = query(Tag).filter(Tag.name == tag_name.lower()).first();
\* if not db_tag: db_tag = Tag(name=tag_name.lower()); db.add(db_tag)".
\* Pending tags are not seen by the query, so every name without a row in
\* the database gets a new Tag object, whose id the flush will assign in
\* insertion order.
ResolveTags(db, tag_names) ==
    LET lows == [i \in DOMAIN tag_names |-> lower(tag_names[i])]
        IsNew(i) == lows[i] \notin Range(db.tags)
        NewUpTo(i) == Cardinality({j \in 1..i : IsNew(j)})
    IN  [new_tags |-> SelectSeq(lows, LAMBDA n : n \notin Range(db.tags)),
         tag_ids  |-> [i \in DOMAIN lows |->
                         IF IsNew(i) THEN Len(db.tags) + NewUpTo(i)
                         ELSE CHOOSE t \in DOMAIN db.tags : db.tags[t] = lows[i]]]

\* the ids of the resolved tags when the rows found by the lookups number
\* `found` and the table holds `stored` rows at the flush: a new row takes the
\* next id of the table, and an id that was looked up stays
IdsAtFlush(resolved, found, stored) ==
    [resolved EXCEPT !.tag_ids =
        [i \in DOMAIN @ |-> IF @[i] > found THEN @[i] + (stored - found) ELSE @[i]]]

\* mutant: the supplied tags are merged into the collection, tags.clear() is lost
FlushTags_merge(assoc, contact_id, current) ==
    LET original == {l.tag_id : l \in {x \in DOMAIN assoc : x.contact_id = contact_id}}
        added == SelectSeq(current, LAMBDA t : t \notin original)
    IN  assoc (+) SeqToBag([i \in DOMAIN added |-> TagLink(contact_id, added[i])])

\* the rows the unit of work writes for one contact's tags collection:
\* a DELETE for every original member no longer present, an INSERT for every
\* entry of the current list that is not an original member
FlushTags(assoc, contact_id, current) ==
    LET original == {l.tag_id : l \in {x \in DOMAIN assoc : x.contact_id = contact_id}}
        kept == [l \in {x \in DOMAIN assoc :
                          x.contact_id = contact_id => x.tag_id \in Range(current)}
                   |-> assoc[l]]
        added == SelectSeq(current, LAMBDA t : t \notin original)
    IN  kept (+) SeqToBag([i \in DOMAIN added |-> TagLink(contact_id, added[i])])

\* session.flush(): write every pending change into the transaction
flush(txn, pending) ==
    [contacts |-> [id \in DOMAIN txn.contacts |->
                     IF id \in DOMAIN pending.attrs THEN pending.attrs[id]
                     ELSE txn.contacts[id]],
     phone_numbers |-> txn.phone_numbers (+) SeqToBag(pending.phone_numbers),
     addresses |-> txn.addresses (+) SeqToBag(pending.addresses),
     tags |-> txn.tags \o pending.new_tags,
     contact_tag_association |->
         IF pending.tags_of = <<>> THEN txn.contact_tag_association
         ELSE FlushTags(txn.contact_tag_association,
                        pending.tags_of.contact_id, pending.tags_of.current)]

\* the outcome of one crud call: what it raised, what it returned ("Contact",
\* "None", "True" or "False"), the
\* committed database, and what the session still holds uncommitted
Outcome(raised, detail, value, db, txn, pending) ==
    [raised |-> raised, detail |-> detail, value |-> value, db |-> db,
     txn |-> txn, pending |-> pending]

\* db.commit(): flush, then commit; a constraint violation raises
\* IntegrityError and the transaction is rolled back
commit(db, txn, pending, value) ==
    LET written == flush(txn, pending)
    IN  IF ConstraintsHold(written)
        THEN Outcome("none", <<>>, value, written, written, NoPending)
        ELSE Outcome("IntegrityError", <<"UNIQUE constraint failed">>, "None",
                     db, db, NoPending)

\* raise ValueError(f"{kind} '{value}' is already assigned to another contact")
AlreadyAssigned(kind, value, db, txn, pending) ==
    Outcome("ValueError", <<kind, value>>, "None", db, txn, pending)

\* mutant: the validation loop never raises
FirstConflict_never(conflicts) == 0

\* "for entry in entries: if check(entry): raise": the position of the first
\* entry whose check reports a conflict, or 0 when the loop runs to its end
FirstConflict(conflicts) ==
    LET bad == {i \in DOMAIN conflicts : conflicts[i]}
    IN  IF bad = {} THEN 0 ELSE CHOOSE i \in bad : \A j \in bad : i <= j

\* SQLite INTEGER PRIMARY KEY: the new rowid is one more than the largest
NextContactId(db) ==
    IF DOMAIN db.contacts = {} THEN 1
    ELSE 1 + CHOOSE m \in DOMAIN db.contacts : \A i \in DOMAIN db.contacts : i <= m

(***************************************************************************)
(* crud.py: create_contact                                                 *)
(***************************************************************************)
\* create_contact when other sessions may commit while it runs: "seen" is the
\* database its validation queries read (lines 50-63), "db" the database
\* from its first write statement on (db.flush() of line 71 to db.commit())
crud_create_contact_on(seen, db, contact) ==
    LET bad_number == FirstConflict([i \in DOMAIN contact.phone_numbers |->
                         check_phone_number_exists(seen, contact.phone_numbers[i], 0)])
        bad_address == FirstConflict([i \in DOMAIN contact.addresses |->
                         check_address_exists(seen, contact.addresses[i], 0)])
        id == NextContactId(db)
        \* db.add(db_contact); db.flush()
        txn == [db EXCEPT !.contacts =
                   @ @@ (id :> Contact(contact.name, contact.email, contact.phone))]
        resolved == ResolveTags(db, contact.tags)
        pending ==
            [attrs |-> <<>>,
             phone_numbers |-> [i \in DOMAIN contact.phone_numbers |->
                                  PhoneNumber(id, contact.phone_numbers[i])],
             addresses |-> [i \in DOMAIN contact.addresses |->
                              Address(id, contact.addresses[i])],
             new_tags |-> resolved.new_tags,
             tags_of |-> IF contact.tags # <<>>
                         THEN [contact_id |-> id, current |-> resolved.tag_ids]
                         ELSE <<>>]
    IN  IF Truthy(contact.phone) /\ check_phone_number_exists(seen, contact.phone, 0)
        THEN AlreadyAssigned("Phone number", contact.phone, db, db, NoPending)
        ELSE IF bad_number # 0
        THEN AlreadyAssigned("Phone number", contact.phone_numbers[bad_number],
                             db, db, NoPending)
        ELSE IF bad_address # 0
        THEN AlreadyAssigned("Address", contact.addresses[bad_address],
                             db, db, NoPending)
        ELSE commit(db, txn, pending, "Contact")

\* create_contact run by a request that has the database to itself
crud_create_contact(db, contact) == crud_create_contact_on(db, db, contact)

(***************************************************************************)
(* crud.py: get_contact, update_contact, delete_contact                    *)
(***************************************************************************)
\* whether the query finds a row: "Contact" for the loaded object, else "None"
crud_get_contact(db, contact_id) ==
    IF contact_id \in DOMAIN db.contacts THEN "Contact" ELSE "None"

\* mutant: the rows are deleted before the list is validated
ValidatedDelete_first(table, contact_id, supplied, bad) ==
    IF supplied THEN DeleteOwned(table, contact_id) ELSE table

\* mutant: the new rows are added to the old ones, the DELETE never runs
ValidatedDelete_skipped(table, contact_id, supplied, bad) == table

\* the table after "for entry in entries: check ...; query.delete()": the
\* DELETE runs only when a list was supplied and its loop raised nothing
ValidatedDelete(table, contact_id, supplied, bad) ==
    IF supplied /\ bad = 0 THEN DeleteOwned(table, contact_id) ELSE table

\* update_contact when other sessions may commit while it runs: "seen" is the
\* database read by get_contact and by the phone checks (lines 180-201),
\* "db" the database from the first write statement on
crud_update_contact_on(seen, db, contact_id, contact_update) ==
    LET db_contact == seen.contacts[contact_id]
        named == IF contact_update.name # None
                 THEN [db_contact EXCEPT !.name = contact_update.name]
                 ELSE db_contact
        mailed == IF contact_update.email # None
                  THEN [named EXCEPT !.email = contact_update.email]
                  ELSE named
        phoned == IF contact_update.phone # None
                  THEN [mailed EXCEPT !.phone = contact_update.phone]
                  ELSE mailed
        Attrs(c) == IF c # db_contact THEN (contact_id :> c) ELSE <<>>
        bad_number == IF contact_update.phone_numbers = NoList THEN 0
                      ELSE FirstConflict([i \in DOMAIN contact_update.phone_numbers |->
                             check_phone_number_exists(
                                 seen, contact_update.phone_numbers[i], contact_id)])
        \* db.query(PhoneNumber).filter(contact_id == contact_id).delete()
        txn1 == [db EXCEPT !.phone_numbers =
                    ValidatedDelete(@, contact_id,
                                    contact_update.phone_numbers # NoList, bad_number)]
        new_numbers == IF contact_update.phone_numbers = NoList THEN <<>>
                       ELSE [i \in DOMAIN contact_update.phone_numbers |->
                               PhoneNumber(contact_id, contact_update.phone_numbers[i])]
        \* the address queries run in the transaction once the DELETE above
        \* has opened it, and on what the request last saw otherwise
        address_view == IF contact_update.phone_numbers # NoList THEN txn1 ELSE seen
        bad_address == IF contact_update.addresses = NoList THEN 0
                       ELSE FirstConflict([i \in DOMAIN contact_update.addresses |->
                              check_address_exists(
                                  address_view, contact_update.addresses[i],
                                  contact_id)])
        \* db.query(Address).filter(contact_id == contact_id).delete()
        txn2 == [txn1 EXCEPT !.addresses =
                    ValidatedDelete(@, contact_id,
                                    contact_update.addresses # NoList, bad_address)]
        new_addresses == IF contact_update.addresses = NoList THEN <<>>
                         ELSE [i \in DOMAIN contact_update.addresses |->
                                 Address(contact_id, contact_update.addresses[i])]
        \* the tag queries likewise; a new tag row gets its id at the flush
        tag_view == IF contact_update.phone_numbers # NoList
                       \/ contact_update.addresses # NoList
                    THEN txn2 ELSE seen
        resolved == IF contact_update.tags = NoList
                    THEN [new_tags |-> <<>>, tag_ids |-> <<>>]
                    ELSE IdsAtFlush(ResolveTags(tag_view, contact_update.tags),
                                    Len(tag_view.tags), Len(db.tags))
        Pending(c, numbers) ==
            [attrs |-> Attrs(c), phone_numbers |-> numbers, addresses |-> <<>>,
             new_tags |-> <<>>, tags_of |-> <<>>]
        pending ==
            [attrs |-> Attrs(phoned), phone_numbers |-> new_numbers,
             addresses |-> new_addresses, new_tags |-> resolved.new_tags,
             \* db_contact.tags.clear(), then one append per supplied name
             tags_of |-> IF contact_update.tags # NoList
                         THEN [contact_id |-> contact_id, current |-> resolved.tag_ids]
                         ELSE <<>>]
    IN  IF crud_get_contact(seen, contact_id) = "None"
        THEN Outcome("none", <<>>, "None", db, db, NoPending)
        ELSE IF /\ contact_update.phone # None
                /\ check_phone_number_exists(seen, contact_update.phone, contact_id)
        THEN AlreadyAssigned("Phone number", contact_update.phone,
                             db, db, Pending(mailed, <<>>))
        ELSE IF bad_number # 0
        THEN AlreadyAssigned("Phone number", contact_update.phone_numbers[bad_number],
                             db, txn1, Pending(phoned, <<>>))
        ELSE IF bad_address # 0
        THEN AlreadyAssigned("Address", contact_update.addresses[bad_address],
                             db, txn2, Pending(phoned, new_numbers))
        ELSE commit(db, txn2, pending, "Contact")

\* update_contact run by a request that has the database to itself
crud_update_contact(db, contact_id, contact_update) ==
    crud_update_contact_on(db, db, contact_id, contact_update)

\* mutant: the relationships carry no cascade, only the contact row goes
crud_delete_contact_no_cascade(db, contact_id) ==
    IF crud_get_contact(db, contact_id) = "None"
    THEN Outcome("none", <<>>, "False", db, db, NoPending)
    ELSE LET deleted ==
                 [db EXCEPT
                    !.contacts = [id \in DOMAIN db.contacts \ {contact_id} |->
                                    db.contacts[id]],
                    !.contact_tag_association = DeleteOwned(@, contact_id)]
         IN  Outcome("none", <<>>, "True", deleted, deleted, NoPending)

\* mutant: the delete also removes the tag rows once nothing refers to them
crud_delete_contact_orphan_tags(db, contact_id) ==
    IF crud_get_contact(db, contact_id) = "None"
    THEN Outcome("none", <<>>, "False", db, db, NoPending)
    ELSE LET links == DeleteOwned(db.contact_tag_association, contact_id)
             deleted ==
                 [contacts |-> [id \in DOMAIN db.contacts \ {contact_id} |->
                                  db.contacts[id]],
                  phone_numbers |-> DeleteOwned(db.phone_numbers, contact_id),
                  addresses |-> DeleteOwned(db.addresses, contact_id),
                  tags |-> IF DOMAIN links = {} THEN <<>> ELSE db.tags,
                  contact_tag_association |-> links]
         IN  Outcome("none", <<>>, "True", deleted, deleted, NoPending)

\* db.delete(db_contact); db.commit(): the cascade "all, delete-orphan"
\* removes the contact's phone numbers and addresses, the unit of work
\* removes its rows of the association table; tags are not touched
crud_delete_contact(db, contact_id) ==
    IF crud_get_contact(db, contact_id) = "None"
    THEN Outcome("none", <<>>, "False", db, db, NoPending)
    ELSE LET deleted ==
                 [contacts |-> [id \in DOMAIN db.contacts \ {contact_id} |->
                                  db.contacts[id]],
                  phone_numbers |-> DeleteOwned(db.phone_numbers, contact_id),
                  addresses |-> DeleteOwned(db.addresses, contact_id),
                  tags |-> db.tags,
                  contact_tag_association |->
                      DeleteOwned(db.contact_tag_association, contact_id)]
         IN  Outcome("none", <<>>, "True", deleted, deleted, NoPending)

(***************************************************************************)
(* database.py and main.py: one session per request, closed when the       *)
(* request ends; the handlers map outcomes to status codes                 *)
(***************************************************************************)
\* mutant: closing the session keeps what the transaction had already run
close_keeps_transaction(outcome) == outcome.txn

\* get_db: "finally: db.close()" ends the transaction without committing, so
\* what remains is the committed database
close(outcome) == outcome.db

\* the relations for which db.close() discards uncommitted work of the
\* request: statements already run in the transaction and pending objects
Discards(outcome) ==
    {rel \in {"contacts", "phone_numbers", "addresses"} :
        outcome.txn[rel] # outcome.db[rel]}
    \cup (IF outcome.pending.attrs # <<>> THEN {"contacts"} ELSE {})
    \cup (IF outcome.pending.phone_numbers # <<>> THEN {"phone_numbers"} ELSE {})
    \cup (IF outcome.pending.addresses # <<>> THEN {"addresses"} ELSE {})
    \cup (IF outcome.pending.new_tags # <<>> THEN {"tags"} ELSE {})
    \cup (IF outcome.pending.tags_of # <<>> THEN {"contact_tag_association"} ELSE {})

\* mutant: only the pre-flight ValueError is answered as a conflict
ErrorStatus_generic(outcome) ==
    CASE outcome.raised = "ValueError" -> 422
      [] OTHER -> 400

\* the except clauses shared by the create and update handlers:
\* ValueError with "already assigned" -> 422; any other exception whose text
\* has "unique" or "constraint" -> 422; everything else -> 400
ErrorStatus(outcome) ==
    CASE outcome.raised = "ValueError" -> 422
      [] outcome.raised = "IntegrityError" -> 422
      [] OTHER -> 400

\* no part of the response body that matters beyond the status and detail
NoBody == <<>>

Respond(op, status, outcome) ==
    [op |-> op, status |-> status, detail |-> outcome.detail,
     rolled_back |-> Discards(outcome), body |-> NoBody]

\* the request ends: the store is what close() leaves, the client gets the response
Finish(op, status, outcome) ==
    /\ contacts' = close(outcome).contacts
    /\ phone_numbers' = close(outcome).phone_numbers
    /\ addresses' = close(outcome).addresses
    /\ tags' = close(outcome).tags
    /\ contact_tag_association' = close(outcome).contact_tag_association
    /\ response' = Respond(op, status, outcome)

\* POST /contacts
create_contact(contact) ==
    LET outcome == crud_create_contact(Store, contact)
    IN  Finish("create",
               IF outcome.raised = "none" THEN 201 ELSE ErrorStatus(outcome),
               outcome)

\* GET /contacts/{contact_id}
get_contact(contact_id) ==
    LET contact == crud_get_contact(Store, contact_id)
    IN  Finish("get", IF contact = "None" THEN 404 ELSE 200,
               Outcome("none", <<>>, contact, Store, Store, NoPending))

\* PUT /contacts/{contact_id}.  The HTTPException(404) is raised inside the
\* try block, where "except Exception" catches it; its text has neither
\* "unique" nor "constraint", so the handler answers 400.
update_contact(contact_id, contact_update) ==
    LET outcome == crud_update_contact(Store, contact_id, contact_update)
    IN  Finish("update",
               IF outcome.raised # "none" THEN ErrorStatus(outcome)
               ELSE IF outcome.value = "None" THEN 400
               ELSE 200,
               outcome)

\* DELETE /contacts/{contact_id}
delete_contact(contact_id) ==
    LET outcome == crud_delete_contact(Store, contact_id)
    IN  Finish("delete", IF outcome.value = "True" THEN 204 ELSE 404, outcome)

(***************************************************************************)
(* Requests and specifications                                             *)
(***************************************************************************)
\* lists of at most two entries
Lists(S) == {<<>>} \cup {<<a>> : a \in S} \cup {<<a, b>> : a \in S, b \in S}

\* ContactCreate bodies
CreateBodies(phones, phone_lists, address_lists, tag_lists) ==
    [name : Names, email : {None}, phone : phones,
     phone_numbers : phone_lists, addresses : address_lists, tags : tag_lists]

\* ContactUpdate bodies
UpdateBodies(phones, phone_lists, address_lists, tag_lists) ==
    [name : {None}, email : {None}, phone : phones,
     phone_numbers : phone_lists, addresses : address_lists, tags : tag_lists]

\* requests about phones: scalar phone and phone-number lists over two values
PhoneCreateRequests ==
    CreateBodies({None, <<>>} \cup Phones, Lists(Phones), {<<>>}, {<<>>})
PhoneUpdateRequests ==
    UpdateBodies({None, <<>>} \cup Phones, {NoList} \cup Lists(Phones),
                 {NoList}, {NoList})

\* requests about addresses
AddressCreateRequests ==
    CreateBodies({None, <<"1">>}, {<<>>}, Lists(Addrs), {<<>>})
AddressUpdateRequests ==
    UpdateBodies({None}, {NoList}, {NoList} \cup Lists(Addrs), {NoList})

\* requests that touch every relation at once, over one value of each kind
MixedCreateRequests ==
    CreateBodies({None, <<"1">>}, {<<>>, <<(<<"1">>)>>},
                 {<<>>, <<(<<"x">>)>>}, {<<>>, <<(<<"F">>)>>})
MixedUpdateRequests ==
    UpdateBodies({None, <<"1">>}, {NoList, <<>>, <<(<<"1">>)>>},
                 {NoList, <<>>, <<(<<"x">>)>>}, {NoList, <<>>, <<(<<"f">>)>>})

\* requests about tags
TagCreateRequests ==
    CreateBodies({None}, {<<>>}, {<<>>}, Lists(TagNames))
TagUpdateRequests ==
    UpdateBodies({None}, {NoList}, {NoList}, {NoList} \cup Lists(TagNames))

\* a Session of SessionLocal as a direct caller of crud holds it: the rows its
\* open transaction sees, and the changes not yet flushed
Fresh(db) == [txn |-> db, pending |-> NoPending, active |-> TRUE]

\* the requests that can run at the same time, and a slot without a request
Slots == {"a", "b"}
Idle == [op |-> "idle"]

Init ==
    /\ contacts = EmptyStore.contacts
    /\ phone_numbers = EmptyStore.phone_numbers
    /\ addresses = EmptyStore.addresses
    /\ tags = EmptyStore.tags
    /\ contact_tag_association = EmptyStore.contact_tag_association
    /\ response = [op |-> "init", status |-> 200, detail |-> <<>>,
                   rolled_back |-> {}, body |-> NoBody]
    /\ inflight = [slot \in Slots |-> Idle]
    /\ session = Fresh(EmptyStore)

\* requests served one at a time: nothing else is in flight
CreateWithin(bound, requests) ==
    /\ NextContactId(Store) <= bound
    /\ \E contact \in requests : create_contact(contact)
    /\ UNCHANGED <<inflight, session>>
Create(requests) == CreateWithin(MaxContactId, requests)
Get ==
    /\ \E contact_id \in RequestIds : get_contact(contact_id)
    /\ UNCHANGED <<inflight, session>>
Update(requests) ==
    /\ \E contact_id \in RequestIds, contact_update \in requests :
          update_contact(contact_id, contact_update)
    /\ UNCHANGED <<inflight, session>>
Delete ==
    /\ \E contact_id \in RequestIds : delete_contact(contact_id)
    /\ UNCHANGED <<inflight, session>>

Next ==
    \/ Create(PhoneCreateRequests)
    \/ Get
    \/ Update(PhoneUpdateRequests)
    \/ Delete

Spec == Init /\ [][Next]_vars

NextAddresses ==
    \/ Create(AddressCreateRequests)
    \/ Get
    \/ Update(AddressUpdateRequests)
    \/ Delete

SpecAddresses == Init /\ [][NextAddresses]_vars

NextMixed ==
    \/ Create(MixedCreateRequests)
    \/ Get
    \/ Update(MixedUpdateRequests)
    \/ Delete

SpecMixed == Init /\ [][NextMixed]_vars

NextTags ==
    \/ Create(TagCreateRequests)
    \/ Get
    \/ Update(TagUpdateRequests)
    \/ Delete

SpecTags == Init /\ [][NextTags]_vars

(***************************************************************************)
(* Requests served at the same time.  Every request has a session of its   *)
(* own (database.py: get_db); a handler runs its validation queries, and   *)
(* sessions of other requests may commit before its first write statement  *)
(* runs.  A request in flight has read the store ("seen") and written      *)
(* nothing yet.                                                            *)
(***************************************************************************)
\* requests that claim one phone value, as scalar phone or as list entry
ConcurrentCreateRequests ==
    CreateBodies({None, <<"1">>}, {<<>>, <<(<<"1">>)>>}, {<<>>}, {<<>>})
ConcurrentUpdateRequests ==
    UpdateBodies({None, <<"1">>}, {NoList, <<(<<"1">>)>>}, {NoList}, {NoList})

InFlight(op, contact_id, body, seen) ==
    [op |-> op, contact_id |-> contact_id, body |-> body, seen |-> seen]

\* the creates in flight, each of which is going to take a fresh id
CreatesInFlight == Cardinality({slot \in Slots : inflight[slot].op = "create"})

\* POST /contacts, up to the last validation query (crud.py lines 50-63)
read_create_contact(slot, contact) ==
    /\ inflight[slot] = Idle
    /\ NextContactId(Store) + CreatesInFlight <= MaxContactId
    /\ inflight' = [inflight EXCEPT ![slot] = InFlight("create", 0, contact, Store)]
    /\ UNCHANGED <<contacts, phone_numbers, addresses, tags,
                   contact_tag_association, response, session>>

\* PUT /contacts/{contact_id}, up to the last phone check (crud.py lines 176-201)
read_update_contact(slot, contact_id, contact_update) ==
    /\ inflight[slot] = Idle
    /\ inflight' = [inflight EXCEPT ![slot] =
                       InFlight("update", contact_id, contact_update, Store)]
    /\ UNCHANGED <<contacts, phone_numbers, addresses, tags,
                   contact_tag_association, response, session>>

\* POST /contacts from the first write (db.flush(), line 71) to the response
write_create_contact(slot) ==
    LET request == inflight[slot]
        outcome == crud_create_contact_on(request.seen, Store, request.body)
    IN  /\ request.op = "create"
        /\ Finish("create",
                  IF outcome.raised = "none" THEN 201 ELSE ErrorStatus(outcome),
                  outcome)
        /\ inflight' = [inflight EXCEPT ![slot] = Idle]
        /\ UNCHANGED session

\* PUT /contacts/{contact_id} from the first write to the response
write_update_contact(slot) ==
    LET request == inflight[slot]
        outcome == crud_update_contact_on(request.seen, Store,
                                          request.contact_id, request.body)
    IN  /\ request.op = "update"
        /\ Finish("update",
                  IF outcome.raised # "none" THEN ErrorStatus(outcome)
                  ELSE IF outcome.value = "None" THEN 400
                  ELSE 200,
                  outcome)
        /\ inflight' = [inflight EXCEPT ![slot] = Idle]
        /\ UNCHANGED session

ReadCreate ==
    \E slot \in Slots, contact \in ConcurrentCreateRequests :
        read_create_contact(slot, contact)
ReadUpdate ==
    \E slot \in Slots, contact_id \in RequestIds,
       contact_update \in ConcurrentUpdateRequests :
        read_update_contact(slot, contact_id, contact_update)
WriteCreate == \E slot \in Slots : write_create_contact(slot)
WriteUpdate == \E slot \in Slots : write_update_contact(slot)

NextConcurrent ==
    \/ ReadCreate
    \/ ReadUpdate
    \/ WriteCreate
    \/ WriteUpdate

SpecConcurrent == Init /\ [][NextConcurrent]_vars

(***************************************************************************)
(* crud.py: get_contacts, and main.py: list_contacts                       *)
(***************************************************************************)
\* the characters of the model's strings in the order of their code points,
\* which is the order the database compares text in
Alphabet == <<"%", "1", "2", "@", "F", "J", "W", "_", "a", "e", "f", "j",
              "o", "w", "x", "y">>
CharRank(c) == CHOOSE i \in DOMAIN Alphabet : Alphabet[i] = c

\* s <= t for two strings
RECURSIVE StringLeq(_, _)
StringLeq(s, t) ==
    IF s = <<>> THEN TRUE
    ELSE IF t = <<>> THEN FALSE
    ELSE IF Head(s) = Head(t) THEN StringLeq(Tail(s), Tail(t))
    ELSE CharRank(Head(s)) < CharRank(Head(t))

\* a <= b for two values of one column; NULL sorts before every value
ColumnLeq(column, a, b) ==
    IF column = "id" THEN a <= b
    ELSE IF a = None THEN TRUE
    ELSE IF b = None THEN FALSE
    ELSE StringLeq(a, b)

\* the columns of Contact
Columns == {"id", "name", "email", "phone", "address"}

\* getattr(models.Contact, sort_by, models.Contact.name)
sort_column(sort_by) ==
    IF sort_by \in Columns THEN sort_by ELSE "name"

ColumnValue(db, id, column) ==
    IF column = "id" THEN id ELSE db.contacts[id][column]

\* every arrangement of the selected contacts
Arrangements(ids) ==
    {order \in [1..Cardinality(ids) -> ids] :
        \A i, j \in DOMAIN order : order[i] = order[j] => i = j}

\* query.order_by(sort_column), descending when sort_order == "desc": the
\* orders the database may return; rows with equal keys come in any order
order_by(db, ids, sort_by, sort_order) ==
    {order \in Arrangements(ids) :
        \A i, j \in DOMAIN order :
            i < j =>
                LET a == ColumnValue(db, order[i], sort_column(sort_by))
                    b == ColumnValue(db, order[j], sort_column(sort_by))
                IN  IF sort_order = "desc"
                    THEN ColumnLeq(sort_column(sort_by), b, a)
                    ELSE ColumnLeq(sort_column(sort_by), a, b)}

\* mutant: the page starts one row late
offset_limit_late(order, skip, limit) ==
    SubSeq(order, skip + 2, IF skip + 1 + limit < Len(order)
                            THEN skip + 1 + limit ELSE Len(order))

\* query.offset(skip).limit(limit).all()
offset_limit(order, skip, limit) ==
    SubSeq(order, skip + 1, IF skip + limit < Len(order)
                            THEN skip + limit ELSE Len(order))

\* the (contacts, total) pairs a query over the selected contacts may return
Paginate(db, ids, skip, limit, sort_by, sort_order) ==
    {[contacts |-> offset_limit(order, skip, limit), total |-> Cardinality(ids)] :
        order \in order_by(db, ids, sort_by, sort_order)}

crud_get_contacts(db, skip, limit, sort_by, sort_order) ==
    Paginate(db, DOMAIN db.contacts, skip, limit, sort_by, sort_order)

\* the body of a ContactListResponse
ContactListResponse(result, page, page_size) ==
    [contacts |-> result.contacts, total |-> result.total, page |-> page,
     page_size |-> page_size,
     total_pages |-> (result.total + page_size - 1) \div page_size]

\* the request parameters pass the Query(...) declarations of the handler
ValidPaging(page, page_size, sort_by, sort_order) ==
    /\ page >= 1
    /\ page_size >= 1 /\ page_size <= 100
    /\ sort_by \in {"name", "email"}
    /\ sort_order \in {"asc", "desc"}

\* a read-only request answers and leaves the store alone
Answer(op, status, body) ==
    /\ response' = [op |-> op, status |-> status, detail |-> <<>>,
                    rolled_back |-> {}, body |-> body]
    /\ UNCHANGED <<contacts, phone_numbers, addresses, tags,
                   contact_tag_association, inflight, session>>

\* GET /contacts
list_contacts(page, page_size, sort_by, sort_order) ==
    IF ~ValidPaging(page, page_size, sort_by, sort_order)
    THEN Answer("list", 422, NoBody)
    ELSE \E result \in crud_get_contacts(Store, (page - 1) * page_size, page_size,
                                         sort_by, sort_order) :
             Answer("list", 200, ContactListResponse(result, page, page_size))

\* request bodies with every scalar field drawn from a set
Bodies(names, emails, phones, phone_lists, address_lists, tag_lists) ==
    [name : names, email : emails, phone : phones,
     phone_numbers : phone_lists, addresses : address_lists, tags : tag_lists]

\* contacts that differ in their names only
ListCreateRequests ==
    Bodies({<<"J">>, <<"a">>}, {None}, {None}, {<<>>}, {<<>>}, {<<>>})

\* the ids a listed store runs to
MaxListed == 3

\* pages up to one past the last, page sizes below the whole store and one
\* page size the handler refuses
Pages == 1..MaxListed
PageSizes == 0..(MaxListed - 1)

List ==
    \E page \in Pages, page_size \in PageSizes,
       sort_by \in {"name", "email"}, sort_order \in {"asc", "desc"} :
        list_contacts(page, page_size, sort_by, sort_order)

NextList ==
    \/ CreateWithin(MaxListed, ListCreateRequests)
    \/ Delete
    \/ List

SpecList == Init /\ [][NextList]_vars

(***************************************************************************)
(* crud.py: search_contacts, and main.py: search_contacts                  *)
(***************************************************************************)
\* value LIKE pattern, as the database evaluates it: "%" stands for any run
\* of characters, "_" for any one character, nothing escapes them
RECURSIVE like(_, _)
like(value, pattern) ==
    IF pattern = <<>> THEN value = <<>>
    ELSE IF Head(pattern) = "%"
    THEN \/ like(value, Tail(pattern))
         \/ value # <<>> /\ like(Tail(value), pattern)
    ELSE /\ value # <<>>
         /\ Head(pattern) = "_" \/ Head(pattern) = Head(value)
         /\ like(Tail(value), Tail(pattern))

\* func.lower(column).like(search_term); NULL is like nothing
ColumnLike(value, search_term) ==
    value # None /\ like(lower(value), search_term)

\* the or_(...) filter over the contact and its outer-joined phone numbers
MatchesQuery(db, id, query) ==
    LET search_term == <<"%">> \o lower(query) \o <<"%">>
    IN  \/ ColumnLike(db.contacts[id].name, search_term)
        \/ ColumnLike(db.contacts[id].email, search_term)
        \/ ColumnLike(db.contacts[id].phone, search_term)
        \/ \E r \in DOMAIN db.phone_numbers :
              r.contact_id = id /\ ColumnLike(r.number, search_term)

\* the join along Contact.tags filtered by func.lower(name) == tag.lower()
MatchesTag(db, id, tag) ==
    \E l \in DOMAIN db.contact_tag_association :
        l.contact_id = id /\ lower(db.tags[l.tag_id]) = lower(tag)

\* SELECT DISTINCT over the joins: every contact that has some matching row
crud_search_contacts(db, query, tag, skip, limit, sort_by, sort_order) ==
    Paginate(db,
             {id \in DOMAIN db.contacts :
                 /\ Truthy(query) => MatchesQuery(db, id, query)
                 /\ Truthy(tag) => MatchesTag(db, id, tag)},
             skip, limit, sort_by, sort_order)

\* GET /contacts/search
search_contacts(query, tag, page, page_size, sort_by, sort_order) ==
    IF ~ValidPaging(page, page_size, sort_by, sort_order)
    THEN Answer("search", 422, NoBody)
    ELSE \E result \in crud_search_contacts(Store, query, tag,
                                            (page - 1) * page_size, page_size,
                                            sort_by, sort_order) :
             Answer("search", 200, ContactListResponse(result, page, page_size))

\* contacts with and without an email, a scalar phone, two phone numbers that
\* share their digits, and a tag
SearchCreateRequests ==
    Bodies({<<"J", "o">>}, {None, <<"a", "@">>}, {None, <<"1">>},
           {<<>>, <<(<<"1", "2">>), (<<"2", "1">>)>>},
           {<<>>}, {<<>>, <<(<<"F">>)>>})

\* no query, the empty query, text in either case, and the two characters
\* that LIKE reads as wildcards
Queries == {None, <<>>, <<"j">>, <<"O">>, <<"o", "j">>, <<"@">>, <<"1">>,
            <<"2">>, <<"_">>, <<"%">>}
TagFilters == {None, <<"f">>, <<"F">>, <<"w">>}

\* a page that holds every stored contact, and a page of one
SearchPageSizes == {1, 100}

Search ==
    \E query \in Queries, tag \in TagFilters, page_size \in SearchPageSizes :
        search_contacts(query, tag, 1, page_size, "name", "asc")

NextSearch ==
    \/ Create(SearchCreateRequests)
    \/ Search

SpecSearch == Init /\ [][NextSearch]_vars

(***************************************************************************)
(* The query functions called directly, as tests/test_crud.py calls them,  *)
(* with sort parameters the HTTP handlers would refuse.                    *)
(***************************************************************************)
\* crud.get_contacts(db, skip, limit, sort_by, sort_order)
call_get_contacts(skip, limit, sort_by, sort_order) ==
    \E result \in crud_get_contacts(Store, skip, limit, sort_by, sort_order) :
        Answer("crud.get_contacts", 200, result)

\* crud.search_contacts(db, query, tag, skip, limit, sort_by, sort_order)
call_search_contacts(query, tag, skip, limit, sort_by, sort_order) ==
    \E result \in crud_search_contacts(Store, query, tag, skip, limit,
                                       sort_by, sort_order) :
        Answer("crud.search_contacts", 200, result)

\* contacts whose names, emails and phones order them differently
SortCreateRequests ==
    Bodies({<<"J">>, <<"a">>}, {None, <<"a", "@">>}, {None} \cup Phones,
           {<<>>}, {<<>>}, {<<>>})

\* the two fields the handlers accept, two other columns, and a name that
\* is no attribute of Contact
SortFields == {"name", "email", "phone", "id", "created_at"}
SortOrders == {"asc", "desc", "up"}

\* the default limit of the query functions
DefaultLimit == 10

GetContacts ==
    \E sort_by \in SortFields, sort_order \in SortOrders :
        call_get_contacts(0, DefaultLimit, sort_by, sort_order)

SearchContacts ==
    \E sort_by \in SortFields, sort_order \in SortOrders :
        call_search_contacts(None, None, 0, DefaultLimit, sort_by, sort_order)

NextSort ==
    \/ Create(SortCreateRequests)
    \/ GetContacts
    \/ SearchContacts

SpecSort == Init /\ [][NextSort]_vars

(***************************************************************************)
(* Updates that supply any choice of the six fields of ContactUpdate       *)
(***************************************************************************)
\* a contact with nothing but a name, and one with a value in every field
FrameCreateRequests ==
    Bodies({<<"J">>}, {None}, {None}, {<<>>}, {<<>>}, {<<>>})
    \cup Bodies({<<"J">>}, {<<"a", "@">>}, {<<"1">>}, {<<(<<"2">>)>>},
                {<<(<<"x">>)>>}, {<<(<<"F">>)>>})

\* ContactUpdate(): every field left at its default None
NoUpdate ==
    [name |-> None, email |-> None, phone |-> None, phone_numbers |-> NoList,
     addresses |-> NoList, tags |-> NoList]

\* the name alone, the tags alone, and two bodies that between them supply
\* every field once and leave every field out once
FrameUpdateRequests ==
    {[NoUpdate EXCEPT !.name = <<"a">>],
     [NoUpdate EXCEPT !.tags = <<(<<"w">>)>>],
     [NoUpdate EXCEPT !.name = <<"a">>, !.phone_numbers = <<>>,
                      !.tags = <<(<<"w">>)>>],
     [NoUpdate EXCEPT !.email = <<"e", "@">>, !.phone = <<"2", "2">>,
                      !.addresses = <<(<<"y">>)>>]}

NextFrame ==
    \/ Create(FrameCreateRequests)
    \/ Update(FrameUpdateRequests)

SpecFrame == Init /\ [][NextFrame]_vars

(***************************************************************************)
(* Updates that replace the phone-number list and the address list         *)
(***************************************************************************)
ListCreateBodies ==
    Bodies(Names, {None}, {None}, {<<>>, <<(<<"1">>)>>, <<(<<"2">>)>>},
           {<<>>, <<(<<"x">>)>>, <<(<<"y">>)>>}, {<<>>})

\* lists left out, emptied, given one value, and given two values
ListUpdateRequests ==
    Bodies({None}, {None}, {None},
           {NoList, <<>>, <<(<<"1">>)>>, <<(<<"1">>), (<<"2">>)>>},
           {NoList, <<>>, <<(<<"x">>)>>, <<(<<"x">>), (<<"y">>)>>},
           {NoList})

NextLists ==
    \/ Create(ListCreateBodies)
    \/ Update(ListUpdateRequests)

SpecLists == Init /\ [][NextLists]_vars

(***************************************************************************)
(* Contacts that own rows of every kind, updated and deleted               *)
(***************************************************************************)
\* every contact is created with a phone-number row, an address row and a tag
OwnedCreateRequests ==
    Bodies({<<"J">>}, {None}, {None}, {<<(<<"1">>)>>, <<(<<"2">>)>>},
           {<<(<<"x">>)>>, <<(<<"y">>)>>}, {<<(<<"f">>)>>, <<(<<"w">>)>>})

\* one list emptied or replaced at a time, and a tag list that cannot commit
OwnedUpdateRequests ==
    {[NoUpdate EXCEPT !.phone_numbers = <<>>],
     [NoUpdate EXCEPT !.addresses = <<(<<"y">>)>>],
     [NoUpdate EXCEPT !.tags = <<>>],
     [NoUpdate EXCEPT !.tags = <<(<<"F">>), (<<"f">>)>>]}

NextOwned ==
    \/ Create(OwnedCreateRequests)
    \/ Update(OwnedUpdateRequests)
    \/ Delete

SpecOwned == Init /\ [][NextOwned]_vars

(***************************************************************************)
(* Concurrent requests that insert the same number, address or tag name    *)
(***************************************************************************)
\* a create inserts a phone-number row, an address row or a tag row
RaceCreateRequests ==
    {[name |-> <<"J">>, email |-> None, phone |-> None,
      phone_numbers |-> <<(<<"1">>)>>, addresses |-> <<>>, tags |-> <<>>],
     [name |-> <<"J">>, email |-> None, phone |-> None,
      phone_numbers |-> <<>>, addresses |-> <<(<<"x">>)>>, tags |-> <<>>],
     [name |-> <<"J">>, email |-> None, phone |-> None,
      phone_numbers |-> <<>>, addresses |-> <<>>, tags |-> <<(<<"F">>)>>]}

\* an update replaces one list by the value the creates insert
RaceUpdateRequests ==
    {[NoUpdate EXCEPT !.phone_numbers = <<(<<"1">>)>>],
     [NoUpdate EXCEPT !.addresses = <<(<<"x">>)>>],
     [NoUpdate EXCEPT !.tags = <<(<<"f">>)>>]}

RaceReadCreate ==
    \E slot \in Slots, contact \in RaceCreateRequests :
        read_create_contact(slot, contact)
RaceReadUpdate ==
    \E slot \in Slots, contact_id \in RequestIds,
       contact_update \in RaceUpdateRequests :
        read_update_contact(slot, contact_id, contact_update)

NextRace ==
    \/ RaceReadCreate
    \/ RaceReadUpdate
    \/ WriteCreate
    \/ WriteUpdate

SpecRace == Init /\ [][NextRace]_vars

(***************************************************************************)
(* crud called through one Session, the way tests/test_crud.py calls it    *)
(***************************************************************************)
\* the Contact object the session holds for an id: the row its transaction
\* sees, with the attribute changes that are not flushed yet
Loaded(s, contact_id) ==
    IF contact_id \in DOMAIN s.pending.attrs THEN s.pending.attrs[contact_id]
    ELSE s.txn.contacts[contact_id]

\* crud.py lines 184-194 on the loaded object: name and email are assigned
\* before any check, phone once its own check has passed
Assign(db_contact, seen, contact_id, contact_update) ==
    [name |-> IF contact_update.name # None THEN contact_update.name
              ELSE db_contact.name,
     email |-> IF contact_update.email # None THEN contact_update.email
               ELSE db_contact.email,
     phone |-> IF /\ contact_update.phone # None
                  /\ ~check_phone_number_exists(seen, contact_update.phone,
                                                contact_id)
               THEN contact_update.phone
               ELSE db_contact.phone,
     address |-> db_contact.address]

\* what the session holds unflushed after update_contact has run on it
Carried(s, contact_id, contact_update, outcome) ==
    [s.pending EXCEPT
        !.attrs = (contact_id :> Assign(Loaded(s, contact_id), s.txn, contact_id,
                                        contact_update)) @@ @,
        !.phone_numbers = @ \o outcome.pending.phone_numbers]

\* the answer of a crud function to its caller
Returned(op, outcome) ==
    [op |-> op, status |-> IF outcome.raised = "none" THEN 200
                           ELSE ErrorStatus(outcome),
     detail |-> outcome.detail, rolled_back |-> {},
     body |-> <<outcome.raised, outcome.value>>]

\* the function returned or raised before it wrote anything
SessionKeeps(op, outcome) ==
    /\ response' = Returned(op, outcome)
    /\ UNCHANGED <<contacts, phone_numbers, addresses, tags,
                   contact_tag_association, session, inflight>>

\* db.commit(): the flush writes what the function did together with all the
\* session still held, and the transaction commits or rolls back as a whole.
\* A handle whose flush has failed is followed no further.
SessionCommits(op, outcome, held) ==
    LET written == flush(outcome.db, held)
        failed == Outcome("IntegrityError", <<"UNIQUE constraint failed">>,
                          "None", Store, Store, NoPending)
    IN  IF outcome.raised = "none" /\ ConstraintsHold(written)
        THEN /\ contacts' = written.contacts
             /\ phone_numbers' = written.phone_numbers
             /\ addresses' = written.addresses
             /\ tags' = written.tags
             /\ contact_tag_association' = written.contact_tag_association
             /\ session' = Fresh(written)
             /\ response' = Returned(op, outcome)
             /\ UNCHANGED inflight
        ELSE /\ session' = [Fresh(Store) EXCEPT !.active = FALSE]
             /\ response' = Returned(op, failed)
             /\ UNCHANGED <<contacts, phone_numbers, addresses, tags,
                            contact_tag_association, inflight>>

\* crud.create_contact(db, contact)
session_create_contact(contact) ==
    LET outcome == crud_create_contact_on(session.txn, session.txn, contact)
    IN  IF outcome.raised = "ValueError"
        THEN SessionKeeps("crud.create_contact", outcome)
        ELSE SessionCommits("crud.create_contact", outcome, session.pending)

\* crud.update_contact(db, contact_id, contact_update)
session_update_contact(contact_id, contact_update) ==
    LET outcome == crud_update_contact_on(session.txn, session.txn, contact_id,
                                          contact_update)
        held == Carried(session, contact_id, contact_update, outcome)
    IN  IF outcome.raised = "none" /\ outcome.value = "None"
        THEN SessionKeeps("crud.update_contact", outcome)
        ELSE IF outcome.raised = "ValueError"
        THEN /\ session' = [session EXCEPT !.txn = outcome.txn, !.pending = held]
             /\ response' = Returned("crud.update_contact", outcome)
             /\ UNCHANGED <<contacts, phone_numbers, addresses, tags,
                            contact_tag_association, inflight>>
        ELSE SessionCommits("crud.update_contact", outcome,
                            [held EXCEPT !.phone_numbers = session.pending.phone_numbers])

\* crud.delete_contact(db, contact_id)
session_delete_contact(contact_id) ==
    LET outcome == crud_delete_contact(session.txn, contact_id)
    IN  IF outcome.value = "False"
        THEN SessionKeeps("crud.delete_contact", outcome)
        ELSE SessionCommits("crud.delete_contact", outcome, session.pending)

\* contacts with nothing, with a phone-number row, with an address row
SessionCreateRequests ==
    Bodies({<<"J">>}, {None}, {None}, {<<>>, <<(<<"1">>)>>},
           {<<>>, <<(<<"x">>)>>}, {<<>>})

\* updates that assign name, email or phone and replace the phone numbers
\* before a check that another contact's rows can fail, and one that cannot
\* fail
SessionUpdateRequests ==
    {[NoUpdate EXCEPT !.name = <<"a">>, !.email = <<"e", "@">>,
                      !.phone_numbers = <<(<<"1">>)>>],
     [NoUpdate EXCEPT !.phone = <<"2">>, !.phone_numbers = <<(<<"3">>)>>,
                      !.addresses = <<(<<"x">>)>>],
     [NoUpdate EXCEPT !.name = <<"b">>]}

\* the unflushed rows a session is followed with
MaxHeld == 1

SessionCreate ==
    /\ session.active
    /\ NextContactId(session.txn) <= MaxContactId
    /\ \E contact \in SessionCreateRequests : session_create_contact(contact)
SessionUpdate ==
    /\ session.active
    /\ Len(session.pending.phone_numbers) < MaxHeld
    /\ \E contact_id \in RequestIds, contact_update \in SessionUpdateRequests :
          session_update_contact(contact_id, contact_update)
SessionDelete ==
    /\ session.active
    /\ \E contact_id \in RequestIds : session_delete_contact(contact_id)

NextSession ==
    \/ SessionCreate
    \/ SessionUpdate
    \/ SessionDelete

SpecSession == Init /\ [][NextSession]_vars

(***************************************************************************)
(* Properties                                                              *)
(***************************************************************************)
\* the contacts whose scalar phone is P
ScalarHolders(P) == {id \in DOMAIN contacts : contacts[id].phone = P}

\* the phone-number rows whose number is P, and how many there are
RowsWith(P) == {r \in DOMAIN phone_numbers : r.number = P}
CountRows(table, rows) ==
    IF rows = {} THEN 0
    ELSE LET Sum[S \in SUBSET rows] ==
                 IF S = {} THEN 0
                 ELSE LET r == CHOOSE x \in S : TRUE
                      IN  table[r] + Sum[S \ {r}]
         IN  Sum[rows]

\* every contact that holds P, in either location
Holders(P) == ScalarHolders(P) \cup {r.contact_id : r \in RowsWith(P)}

\* C1 as stated: for every non-empty phone value P, the scalar phones and the
\* phone-number rows together hold P at most once (a contact holding P in both
\* places counts twice).
C1_AtMostOnceOverall ==
    \A P \in Phones :
        Cardinality(ScalarHolders(P)) + CountRows(phone_numbers, RowsWith(P)) <= 1

\* C1, amended: for every non-empty phone value P at most one contact has P as
\* its scalar phone, at most one phone-number row has number P, and when both
\* exist they belong to the same contact.
C1_AtMostOncePerLocation ==
    \A P \in Phones :
        /\ Cardinality(ScalarHolders(P)) <= 1
        /\ CountRows(phone_numbers, RowsWith(P)) <= 1
        /\ \A id \in ScalarHolders(P), r \in RowsWith(P) : r.contact_id = id

\* a second contact exists while one contact holds a value in both locations
C1_Witness ==
    /\ Cardinality(DOMAIN contacts) = 2
    /\ \E id \in DOMAIN contacts, r \in DOMAIN phone_numbers :
          /\ Truthy(contacts[id].phone)
          /\ r.contact_id = id
          /\ r.number = contacts[id].phone

\* C2: no non-empty phone value is held by two different contacts, whichever
\* location (scalar phone or phone-number row) each of them holds it in.
C2_NoPhoneSharedByTwoContacts ==
    \A P \in Phones : Cardinality(Holders(P)) <= 1

\* two contacts hold phones and the last request was refused for a phone
C2_Witness ==
    /\ \E id1, id2 \in DOMAIN contacts :
          /\ id1 # id2
          /\ \E P \in Phones : id1 \in Holders(P)
          /\ \E P \in Phones : id2 \in Holders(P)
    /\ response.status = 422
    /\ response.detail # <<>>
    /\ response.detail[1] = "Phone number"

StoreVars == <<contacts, phone_numbers, addresses, tags, contact_tag_association>>

\* the message of the pre-flight conflict error names the kind of value
ConflictKinds == {"Phone number", "Address"}

\* address X is held by a contact other than the one named (0: by any contact)
AddressHeldByOther(X, contact_id) ==
    \/ \E id \in DOMAIN contacts : id # contact_id /\ contacts[id].address = X
    \/ \E r \in DOMAIN addresses : r.contact_id # contact_id /\ r.address = X

\* phone P is held by a contact other than the one named (0: by any contact)
PhoneHeldByOther(P, contact_id) ==
    \/ \E id \in DOMAIN contacts : id # contact_id /\ contacts[id].phone = P
    \/ \E r \in DOMAIN phone_numbers : r.contact_id # contact_id /\ r.number = P

C3_AddressAtMostOnce ==
    \A X \in Addrs :
        Cardinality({id \in DOMAIN contacts : contacts[id].address = X})
          + CountRows(addresses, {r \in DOMAIN addresses : r.address = X}) <= 1

C3_ConflictRefused ==
    /\ response'.op = "create" =>
          \A contact \in AddressCreateRequests :
              /\ create_contact(contact)
              /\ \E i \in DOMAIN contact.addresses :
                    AddressHeldByOther(contact.addresses[i], 0)
              => /\ response'.status = 422
                 /\ response'.detail[1] \in ConflictKinds
                 /\ UNCHANGED StoreVars
    /\ response'.op = "update" =>
          \A contact_id \in DOMAIN contacts, contact_update \in AddressUpdateRequests :
              /\ update_contact(contact_id, contact_update)
              /\ contact_update.addresses # NoList
              /\ \E i \in DOMAIN contact_update.addresses :
                    AddressHeldByOther(contact_update.addresses[i], contact_id)
              => /\ response'.status = 422
                 /\ response'.detail[1] = "Address"
                 /\ UNCHANGED StoreVars

\* C3: for every address value X, the scalar addresses and the address rows
\* together hold X at most once; a create or update that supplies an address
\* held by another contact is refused with the conflict error and changes nothing.
C3_AddressUnique == []C3_AddressAtMostOnce /\ [][C3_ConflictRefused]_vars

\* two contacts hold different addresses and the last request was refused
\* because of an address
C3_Witness ==
    /\ \E r1, r2 \in DOMAIN addresses :
          r1.contact_id # r2.contact_id /\ r1.address # r2.address
    /\ response.status = 422
    /\ response.detail # <<>>
    /\ response.detail[1] = "Address"

\* the create body claims a value that some stored contact already holds
C4_Claimed(contact) ==
    \/ Truthy(contact.phone) /\ PhoneHeldByOther(contact.phone, 0)
    \/ \E i \in DOMAIN contact.phone_numbers :
          PhoneHeldByOther(contact.phone_numbers[i], 0)
    \/ \E i \in DOMAIN contact.addresses :
          AddressHeldByOther(contact.addresses[i], 0)

\* C4: a create whose scalar phone, phone-number entry or address entry is
\* already claimed answers with the conflict error and leaves contacts,
\* phone-number rows, address rows, tag rows and associations as they were.
C4_RefusedCreateCommitsNothing ==
    [][response'.op = "create" =>
          \A contact \in MixedCreateRequests :
              create_contact(contact) /\ C4_Claimed(contact)
              => /\ response'.status = 422
                 /\ response'.detail[1] \in ConflictKinds
                 /\ UNCHANGED StoreVars]_vars

\* the store holds exactly one contact, whose scalar phone a refused create
\* has just tried to claim
C4_Witness ==
    /\ response.op = "create"
    /\ response.status = 422
    /\ Cardinality(DOMAIN contacts) = 1
    /\ \E id \in DOMAIN contacts :
          response.detail = <<"Phone number", contacts[id].phone>>

\* C5: an update refused for a uniqueness failure leaves every contact's
\* phone-number rows, address rows and tag associations (and the rest of the
\* store) as they were, also when the phone-number list had already been
\* replaced inside the request before an address entry conflicted.
C5_RefusedUpdateChangesNothing ==
    [][response'.op = "update" /\ response'.status = 422
          => UNCHANGED StoreVars]_vars

\* an update was refused for an address after its transaction had already
\* replaced phone-number rows, and the target still has rows and tags
C5_Witness ==
    /\ response.op = "update"
    /\ response.status = 422
    /\ response.detail[1] = "Address"
    /\ "phone_numbers" \in response.rolled_back
    /\ \E r \in DOMAIN phone_numbers, l \in DOMAIN contact_tag_association :
          r.contact_id = l.contact_id

\* the update body that supplies the scalar phone only
PhoneOnly(P) ==
    [name |-> None, email |-> None, phone |-> P, phone_numbers |-> NoList,
     addresses |-> NoList, tags |-> NoList]

\* C6: update(id, phone=P) with P non-empty is refused with the conflict error
\* and keeps the stored scalar phone when another contact holds P (as scalar
\* phone or as phone-number row); otherwise it succeeds and stores P.
C6_ScalarPhoneUpdate ==
    [][response'.op = "update" =>
          \A contact_id \in DOMAIN contacts, P \in Phones :
              update_contact(contact_id, PhoneOnly(P))
              => IF PhoneHeldByOther(P, contact_id)
                 THEN /\ response'.status = 422
                      /\ response'.detail = <<"Phone number", P>>
                      /\ contacts'[contact_id].phone = contacts[contact_id].phone
                 ELSE /\ response'.status = 200
                      /\ contacts'[contact_id].phone = P]_vars

\* an update was refused for a phone that another contact holds as a
\* phone-number row, while a contact with a different scalar phone exists
C6_Witness ==
    /\ response.op = "update"
    /\ response.status = 422
    /\ response.detail # <<>>
    /\ response.detail[1] = "Phone number"
    /\ \E r \in DOMAIN phone_numbers, id \in DOMAIN contacts :
          /\ r.number = response.detail[2]
          /\ r.contact_id # id
          /\ Truthy(contacts[id].phone)
          /\ contacts[id].phone # response.detail[2]

\* C7: for an id that is not in the store, getById, update and delete each
\* answer 404 and leave the store unchanged.
C7_MissingIdIs404 ==
    [][\A contact_id \in RequestIds :
          /\ contact_id \notin DOMAIN contacts
          /\ \/ get_contact(contact_id)
             \/ delete_contact(contact_id)
             \/ \E contact_update \in PhoneUpdateRequests :
                    update_contact(contact_id, contact_update)
          => response'.status = 404 /\ UNCHANGED StoreVars]_vars

\* C8: delete(id) of an existing contact reports success; afterwards the id
\* is not found, no phone-number or address row of that contact remains, and
\* every tag row and every other contact's association is still present.
C8_DeleteCascades ==
    [][response'.op = "delete" =>
          \A contact_id \in DOMAIN contacts :
              delete_contact(contact_id)
              => /\ response'.status = 204
                 /\ contact_id \notin DOMAIN contacts'
                 /\ \A r \in DOMAIN phone_numbers' : r.contact_id # contact_id
                 /\ \A r \in DOMAIN addresses' : r.contact_id # contact_id
                 /\ tags' = tags
                 /\ \A l \in DOMAIN contact_tag_association :
                       l.contact_id # contact_id
                       => l \in DOMAIN contact_tag_association']_vars

\* a contact was deleted; its tag row is still there and another contact,
\* which keeps its own rows, is still associated with it
C8_Witness ==
    /\ response.op = "delete"
    /\ response.status = 204
    /\ tags # <<>>
    /\ \E l \in DOMAIN contact_tag_association, r \in DOMAIN phone_numbers :
          l.contact_id = r.contact_id

SameIgnoringCase(a, b) == lower(a) = lower(b)

C9_TagNamesFolded ==
    \A i, j \in DOMAIN tags :
        /\ tags[i] = lower(tags[i])
        /\ SameIgnoringCase(tags[i], tags[j]) => i = j

\* the tags of a contact after the step, as ids
TagIdsAfter(contact_id) ==
    {l.tag_id : l \in {x \in DOMAIN contact_tag_association' :
                          x.contact_id = contact_id}}

C9_ExistingRowReused ==
    /\ response'.op = "create" /\ response'.status = 201 =>
          \A contact \in TagCreateRequests :
              create_contact(contact)
              => \A i \in DOMAIN contact.tags, t \in DOMAIN tags :
                    SameIgnoringCase(tags[t], contact.tags[i])
                    => /\ Len(tags') = Len(tags)
                          + Cardinality({lower(contact.tags[k]) :
                                           k \in DOMAIN contact.tags}
                                        \ Range(tags))
                       /\ \E id \in DOMAIN contacts' \ DOMAIN contacts :
                             t \in TagIdsAfter(id)
    /\ response'.op = "update" /\ response'.status = 200 =>
          \A contact_id \in DOMAIN contacts, contact_update \in TagUpdateRequests :
              update_contact(contact_id, contact_update) /\ contact_update.tags # NoList
              => \A i \in DOMAIN contact_update.tags, t \in DOMAIN tags :
                    SameIgnoringCase(tags[t], contact_update.tags[i])
                    => /\ Len(tags') = Len(tags)
                          + Cardinality({lower(contact_update.tags[k]) :
                                           k \in DOMAIN contact_update.tags}
                                        \ Range(tags))
                       /\ t \in TagIdsAfter(contact_id)

C10_TagListReplaces ==
    [][response'.op = "update" /\ response'.status = 200 =>
          \A contact_id \in DOMAIN contacts, contact_update \in TagUpdateRequests :
              update_contact(contact_id, contact_update) /\ contact_update.tags # NoList
              => /\ {tags'[t] : t \in TagIdsAfter(contact_id)}
                      = {lower(contact_update.tags[i]) : i \in DOMAIN contact_update.tags}
                 /\ \A l \in DOMAIN contact_tag_association' :
                       l.contact_id = contact_id => contact_tag_association'[l] = 1
                 /\ \A t \in DOMAIN tags : t \in DOMAIN tags' /\ tags'[t] = tags[t]]_vars

\* after an update, a contact has one of two tag rows and the other row is
\* associated with nobody
C10_Witness ==
    /\ response.op = "update"
    /\ response.status = 200
    /\ Len(tags) = 2
    /\ \E t1, t2 \in DOMAIN tags :
          /\ \E l \in DOMAIN contact_tag_association : l.tag_id = t1
          /\ \A l \in DOMAIN contact_tag_association : l.tag_id # t2

\* some stored contact already has this name
NameTaken(name) == \E id \in DOMAIN contacts : contacts[id].name = name

\* no value occurs twice in the list
NoRepeats(list) == \A i, j \in DOMAIN list : list[i] = list[j] => i = j

\* the step added exactly one contact, under an id no contact had, with the
\* given name, and left every other contact as it was
CreatedUnder(name) ==
    \E new \in DOMAIN contacts' :
        /\ new \notin DOMAIN contacts
        /\ DOMAIN contacts' = DOMAIN contacts \cup {new}
        /\ contacts'[new].name = name
        /\ \A id \in DOMAIN contacts : contacts'[id] = contacts[id]

\* C11: a create whose name equals the name of a stored contact, and whose
\* phone, phone-number entries and address entries conflict with nothing
\* (neither with a stored contact nor with each other), succeeds and adds one
\* contact under an id that no stored contact has.
C11_DuplicateNameCreates ==
    [][response'.op = "create" =>
          \A contact \in TagCreateRequests :
              /\ create_contact(contact)
              /\ NameTaken(contact.name)
              /\ ~C4_Claimed(contact)
              /\ NoRepeats(contact.phone_numbers)
              /\ NoRepeats(contact.addresses)
              => /\ response'.status = 201
                 /\ CreatedUnder(contact.name)]_vars

\* the request body claims phone P, as scalar phone or as phone-number entry
ClaimsPhone(body, P) ==
    \/ body.phone = P
    \/ /\ body.phone_numbers # NoList
       /\ \E i \in DOMAIN body.phone_numbers : body.phone_numbers[i] = P

\* C12: of two create or update requests that run at the same time and claim
\* the same phone value, at most one passes validation and commits: no request
\* commits a claim on P once another contact has come to hold P, also when
\* that happened after the request's own validation read the store.
C12_ConcurrentClaimsExclude ==
    [][\A slot \in Slots, P \in Phones :
          /\ write_create_contact(slot) \/ write_update_contact(slot)
          /\ response'.status \in {200, 201}
          /\ ClaimsPhone(inflight[slot].body, P)
          => ~PhoneHeldByOther(P, inflight[slot].contact_id)]_vars

\* what the crud call of the request in the slot raises when its writes run now
RaisedBy(slot) ==
    LET request == inflight[slot]
    IN  IF request.op = "create"
        THEN crud_create_contact_on(request.seen, Store, request.body).raised
        ELSE IF request.op = "update"
        THEN crud_update_contact_on(request.seen, Store,
                                    request.contact_id, request.body).raised
        ELSE "none"

\* C13: when the commit of a create or update violates a uniqueness constraint
\* of the storage layer, a collision its validation did not see, the request
\* answers 422 as a refused validation does, and contacts, phone-number rows,
\* address rows, tag rows and associations stay as they were.
C13_ConstraintViolationIsConflict ==
    [][\A slot \in Slots :
          /\ write_create_contact(slot) \/ write_update_contact(slot)
          /\ RaisedBy(slot) = "IntegrityError"
          => /\ response'.status = 422
             /\ UNCHANGED StoreVars]_vars

\* a request answered 422 for a constraint violation although its own body
\* repeats no value: another request committed the phone-number row first
C13_Witness ==
    /\ response.status = 422
    /\ response.detail = <<"UNIQUE constraint failed">>
    /\ \E r \in DOMAIN phone_numbers : r.number = <<"1">>
    /\ \A slot \in Slots : inflight[slot] = Idle

\* C14: a list request for page p of size s answers with total = the number of
\* stored contacts, a page of exactly min(s, max(0, total - (p - 1) * s))
\* contacts, and total_pages = the least n with n * s >= total.
C14_PageSizeAndTotals ==
    response.op = "list" /\ response.status = 200 =>
        LET body == response.body
            skip == (body.page - 1) * body.page_size
            rest == IF body.total - skip > 0 THEN body.total - skip ELSE 0
        IN  /\ body.total = Cardinality(DOMAIN contacts)
            /\ Len(body.contacts) = IF body.page_size < rest
                                    THEN body.page_size ELSE rest
            /\ body.total_pages * body.page_size >= body.total
            /\ (body.total_pages - 1) * body.page_size < body.total
                 \/ body.total_pages = 0

\* the last, shorter page of a store that needs more than one page
C14_Witness ==
    /\ response.op = "list"
    /\ response.status = 200
    /\ response.body.total_pages = 2
    /\ response.body.page = 2
    /\ response.body.page_size = 2
    /\ Len(response.body.contacts) < response.body.page_size

\* query is a substring of value, ignoring case; an absent value has none
SubstringOf(query, value) ==
    /\ value # None
    /\ \E i \in 0..Len(value) :
          /\ i + Len(query) <= Len(value)
          /\ lower(SubSeq(value, i + 1, i + Len(query))) = lower(query)

\* the contacts that satisfy every filter the search supplies
Selected(query, tag) ==
    {id \in DOMAIN contacts :
        /\ Truthy(query) =>
              \/ SubstringOf(query, contacts[id].name)
              \/ SubstringOf(query, contacts[id].email)
              \/ SubstringOf(query, contacts[id].phone)
              \/ \E r \in DOMAIN phone_numbers :
                    r.contact_id = id /\ SubstringOf(query, r.number)
        /\ Truthy(tag) =>
              \E l \in DOMAIN contact_tag_association :
                  l.contact_id = id /\ lower(tags[l.tag_id]) = lower(tag)}

\* C15: search(query, tag) selects exactly the contacts that satisfy every
\* supplied filter (query a case-insensitive substring of the name, the email,
\* the scalar phone or one of the phone numbers; tag equal, ignoring case, to
\* one of the contact's tags): total is their number and the page holds
\* selected contacts only, each once, as many as fit.
C15_SearchSelectsExactly ==
    [][response'.op = "search" =>
          \A query \in Queries, tag \in TagFilters, page_size \in SearchPageSizes :
              search_contacts(query, tag, 1, page_size, "name", "asc")
              => LET body == response'.body
                     expected == Cardinality(Selected(query, tag))
                 IN  /\ body.total = expected
                     /\ Range(body.contacts) \subseteq Selected(query, tag)
                     /\ NoRepeats(body.contacts)
                     /\ Len(body.contacts) =
                          IF page_size < expected THEN page_size ELSE expected]_vars

\* the sequence of contact ids is ordered by the column, in the direction
OrderedBy(ids, column, descending) ==
    \A i, j \in DOMAIN ids :
        i < j => IF descending
                 THEN ColumnLeq(column, ColumnValue(Store, ids[j], column),
                                ColumnValue(Store, ids[i], column))
                 ELSE ColumnLeq(column, ColumnValue(Store, ids[i], column),
                                ColumnValue(Store, ids[j], column))

\* C16: get_contacts and search_contacts return the contacts ordered by
\* sort_by when it is name or email and by name for every other value of
\* sort_by, the names of other columns included; descending when sort_order
\* is "desc" and ascending for every other value.
C16_SortFieldAndDirection ==
    [][\A sort_by \in SortFields, sort_order \in SortOrders :
          \/ call_get_contacts(0, DefaultLimit, sort_by, sort_order)
          \/ call_search_contacts(None, None, 0, DefaultLimit, sort_by, sort_order)
          => OrderedBy(response'.body.contacts,
                       IF sort_by \in {"name", "email"} THEN sort_by ELSE "name",
                       sort_order = "desc")]_vars

\* the rows of a child table, or of the association table, that belong to a contact
OwnedBy(table, contact_id) ==
    [r \in {x \in DOMAIN table : x.contact_id = contact_id} |-> table[r]]

\* C19: a successful update leaves every field of its target that the body
\* does not supply (name, email, scalar phone, phone-number rows, address
\* rows, tag associations) as it was, and leaves the fields, the rows and the
\* tag associations of every other contact as they were.
C19_UpdateTouchesOnlySupplied ==
    [][response'.op = "update" /\ response'.status = 200 =>
          \A contact_id \in DOMAIN contacts, contact_update \in FrameUpdateRequests :
              update_contact(contact_id, contact_update)
              => /\ DOMAIN contacts' = DOMAIN contacts
                 /\ contact_update.name = None
                      => contacts'[contact_id].name = contacts[contact_id].name
                 /\ contact_update.email = None
                      => contacts'[contact_id].email = contacts[contact_id].email
                 /\ contact_update.phone = None
                      => contacts'[contact_id].phone = contacts[contact_id].phone
                 /\ contacts'[contact_id].address = contacts[contact_id].address
                 /\ contact_update.phone_numbers = NoList
                      => OwnedBy(phone_numbers', contact_id)
                           = OwnedBy(phone_numbers, contact_id)
                 /\ contact_update.addresses = NoList
                      => OwnedBy(addresses', contact_id)
                           = OwnedBy(addresses, contact_id)
                 /\ contact_update.tags = NoList
                      => OwnedBy(contact_tag_association', contact_id)
                           = OwnedBy(contact_tag_association, contact_id)
                 /\ \A other \in DOMAIN contacts \ {contact_id} :
                        /\ contacts'[other] = contacts[other]
                        /\ OwnedBy(phone_numbers', other) = OwnedBy(phone_numbers, other)
                        /\ OwnedBy(addresses', other) = OwnedBy(addresses, other)
                        /\ OwnedBy(contact_tag_association', other)
                             = OwnedBy(contact_tag_association, other)]_vars

\* an update has given a contact a new name while that contact still has the
\* email, phone, phone number, address and tag it was created with, and
\* another contact has an address of its own
C19_Witness ==
    /\ response.op = "update"
    /\ response.status = 200
    /\ \E id, other \in DOMAIN contacts :
          /\ id # other
          /\ contacts[id].name = <<"a">>
          /\ contacts[id].email = <<"a", "@">>
          /\ contacts[id].phone = <<"1">>
          /\ OwnedBy(phone_numbers, id) # <<>>
          /\ OwnedBy(addresses, id) # <<>>
          /\ OwnedBy(contact_tag_association, id) # <<>>
          /\ OwnedBy(addresses, other) # <<>>

\* C17: an update whose phone-number list (address list) has an entry that
\* another contact holds never reaches the DELETE of the contact's
\* phone-number (address) rows: the transaction it ran still has the table as
\* the store has it, and the contact's rows are the same afterwards.
C17_ValidateBeforeDelete ==
    [][response'.op = "update" =>
          \A contact_id \in DOMAIN contacts, contact_update \in ListUpdateRequests :
              update_contact(contact_id, contact_update)
              => LET outcome == crud_update_contact(Store, contact_id, contact_update)
                 IN  /\ /\ contact_update.phone_numbers # NoList
                        /\ \E i \in DOMAIN contact_update.phone_numbers :
                              PhoneHeldByOther(contact_update.phone_numbers[i],
                                               contact_id)
                        => /\ outcome.txn.phone_numbers = phone_numbers
                           /\ OwnedBy(phone_numbers', contact_id)
                                = OwnedBy(phone_numbers, contact_id)
                     /\ /\ contact_update.addresses # NoList
                        /\ \E i \in DOMAIN contact_update.addresses :
                              AddressHeldByOther(contact_update.addresses[i],
                                                 contact_id)
                        => /\ outcome.txn.addresses = addresses
                           /\ OwnedBy(addresses', contact_id)
                                = OwnedBy(addresses, contact_id)]_vars

\* an update was refused for an address entry after its phone-number list
\* had passed and replaced the rows inside the transaction; the contact that
\* asked still has an address row, and another contact holds the address
C17_Witness ==
    /\ response.op = "update"
    /\ response.status = 422
    /\ response.detail # <<>>
    /\ response.detail[1] = "Address"
    /\ response.rolled_back = {"phone_numbers"}
    /\ \E r1, r2 \in DOMAIN addresses :
          /\ r1.contact_id # r2.contact_id
          /\ r1.address = response.detail[2]

\* the values a contact's rows hold, and whether each is held once
ValuesOf(table, contact_id, column) ==
    {r[column] : r \in DOMAIN OwnedBy(table, contact_id)}
HeldOnce(table, contact_id) ==
    \A r \in DOMAIN OwnedBy(table, contact_id) : table[r] = 1

\* C18: after a successful update that supplies a phone-number list L (an
\* address list L), the contact's phone-number (address) rows hold exactly
\* the values of L, each once; also when L is empty and when L has values
\* the contact already held.
C18_ListReplaces ==
    [][response'.op = "update" /\ response'.status = 200 =>
          \A contact_id \in DOMAIN contacts, contact_update \in ListUpdateRequests :
              update_contact(contact_id, contact_update)
              => /\ contact_update.phone_numbers # NoList
                      => /\ ValuesOf(phone_numbers', contact_id, "number")
                              = Range(contact_update.phone_numbers)
                         /\ HeldOnce(phone_numbers', contact_id)
                 /\ contact_update.addresses # NoList
                      => /\ ValuesOf(addresses', contact_id, "address")
                              = Range(contact_update.addresses)
                         /\ HeldOnce(addresses', contact_id)]_vars

\* after a successful update a contact holds two phone numbers and no
\* address, while another contact has an address row of its own
C18_Witness ==
    /\ response.op = "update"
    /\ response.status = 200
    /\ \E id, other \in DOMAIN contacts :
          /\ id # other
          /\ ValuesOf(phone_numbers, id, "number") = {<<"1">>, <<"2">>}
          /\ ValuesOf(addresses, other, "address") = {<<"x">>}
          /\ ValuesOf(addresses, id, "address") = {}

\* the values a uniqueness check may be asked about: absent, empty, held or not
CheckedPhones == {None, <<>>} \cup Phones
CheckedAddresses == {None, <<>>} \cup Addrs

\* C20: check_phone_number_exists(c, ex) and check_address_exists(c, ex) are
\* false for an absent or empty c; otherwise they are true exactly when a
\* contact other than ex has c as its scalar field or owns a child row with
\* value c, and with no ex (0 here) no contact is excluded.
C20_ExistsChecks ==
    /\ \A c \in CheckedPhones, ex \in {0} \cup RequestIds :
          check_phone_number_exists(Store, c, ex)
            = (Truthy(c) /\ PhoneHeldByOther(c, ex))
    /\ \A c \in CheckedAddresses, ex \in {0} \cup RequestIds :
          check_address_exists(Store, c, ex)
            = (Truthy(c) /\ AddressHeldByOther(c, ex))

\* one contact holds a scalar phone, a phone-number row and an address row,
\* so that every check differs with and without excluding it, while another
\* contact holds an address of its own
C20_Witness ==
    \E ex, other \in DOMAIN contacts, P \in Phones, X \in Addrs :
        /\ ex # other
        /\ contacts[ex].phone = P
        /\ check_phone_number_exists(Store, P, 0)
        /\ ~check_phone_number_exists(Store, P, ex)
        /\ \E r \in DOMAIN phone_numbers :
              /\ r.contact_id = ex
              /\ r.number # P
              /\ check_phone_number_exists(Store, r.number, other)
              /\ ~check_phone_number_exists(Store, r.number, ex)
        /\ check_address_exists(Store, X, other)
        /\ ~check_address_exists(Store, X, ex)
        /\ \E Y \in Addrs : check_address_exists(Store, Y, ex)

\* C21: over creates, updates and deletes the tag rows only grow: every tag
\* row of a state is there, under the same id and with the same name, after
\* each step, also when no contact is associated with it any more.
C21_TagRowsOnlyGrow ==
    [][\A t \in DOMAIN tags : t \in DOMAIN tags' /\ tags'[t] = tags[t]]_vars

\* the last contact that carried a tag has been deleted, no association is
\* left, and the tag rows are still there
C21_Witness ==
    /\ response.op = "delete"
    /\ response.status = 204
    /\ Len(tags) = 2
    /\ DOMAIN contact_tag_association = {}
    /\ DOMAIN contacts # {}

\* the tag list names, at two places, one lowercase name that no tag row has
RepeatsNewTag(tag_list) ==
    /\ tag_list # NoList
    /\ \E i, j \in DOMAIN tag_list :
          /\ i # j
          /\ lower(tag_list[i]) = lower(tag_list[j])
          /\ lower(tag_list[i]) \notin Range(tags)

\* after the step every lowercase name of the list has exactly one tag row,
\* and the contact has exactly one association to that row
OneRowOneLink(contact_id, tag_list) ==
    \A i \in DOMAIN tag_list :
        /\ Cardinality({t \in DOMAIN tags' : tags'[t] = lower(tag_list[i])}) = 1
        /\ \A t \in DOMAIN tags' :
              tags'[t] = lower(tag_list[i]) =>
                  LET link == [contact_id |-> contact_id, tag_id |-> t]
                  IN  /\ link \in DOMAIN contact_tag_association'
                      /\ contact_tag_association'[link] = 1

\* C24: a create or an update of a stored contact whose tag list holds two
\* names that are equal ignoring case and match no tag row succeeds, creates
\* exactly one tag row for the lowercase name, and leaves the contact with
\* exactly one association to it.
C24_RepeatedNewTagOnce ==
    [][/\ response'.op = "create" =>
            \A contact \in TagCreateRequests :
                create_contact(contact) /\ RepeatsNewTag(contact.tags)
                => /\ response'.status = 201
                   /\ \E new \in DOMAIN contacts' \ DOMAIN contacts :
                         OneRowOneLink(new, contact.tags)
       /\ response'.op = "update" =>
            \A contact_id \in DOMAIN contacts,
               contact_update \in TagUpdateRequests :
                update_contact(contact_id, contact_update)
                    /\ RepeatsNewTag(contact_update.tags)
                => /\ response'.status = 200
                   /\ OneRowOneLink(contact_id, contact_update.tags)]_vars

\* C25: in every state reached by creates, updates and deletes, every
\* phone-number row and every address row is owned by a stored contact, and
\* every contact-tag association refers to a stored contact and a stored tag.
C25_NoOrphans ==
    /\ \A r \in DOMAIN phone_numbers : r.contact_id \in DOMAIN contacts
    /\ \A r \in DOMAIN addresses : r.contact_id \in DOMAIN contacts
    /\ \A l \in DOMAIN contact_tag_association :
          /\ l.contact_id \in DOMAIN contacts
          /\ l.tag_id \in DOMAIN tags

\* contact 1 has been deleted while contact 2, created after it, keeps a row
\* of each kind
C25_Witness ==
    /\ response.op = "delete"
    /\ response.status = 204
    /\ DOMAIN contacts = {2}
    /\ DOMAIN OwnedBy(phone_numbers, 2) # {}
    /\ DOMAIN OwnedBy(addresses, 2) # {}
    /\ DOMAIN OwnedBy(contact_tag_association, 2) # {}

\* C22: under any interleaving of concurrent create and update requests the
\* committed store never holds two phone-number rows with the same number,
\* two address rows with the same address, or two tag rows with the same
\* name.
C22_CommittedRowsUnique ==
    /\ \A r1, r2 \in DOMAIN phone_numbers :
          /\ phone_numbers[r1] = 1
          /\ r1.number = r2.number => r1 = r2
    /\ \A r1, r2 \in DOMAIN addresses :
          /\ addresses[r1] = 1
          /\ r1.address = r2.address => r1 = r2
    /\ \A t1, t2 \in DOMAIN tags : tags[t1] = tags[t2] => t1 = t2

\* an update looked its tag name up before a concurrent create committed a
\* tag row of that name, and has been refused at its own commit: contact 1
\* owns the only phone-number row, contact 2 the only association, and the
\* one tag row is the create's
C22_Witness ==
    /\ response.op = "update"
    /\ response.status = 422
    /\ response.detail = <<"UNIQUE constraint failed">>
    /\ tags = <<(<<"f">>)>>
    /\ DOMAIN contact_tag_association = {TagLink(2, 1)}
    /\ DOMAIN phone_numbers = {PhoneNumber(1, <<"1">>)}
    /\ DOMAIN addresses = {}

\* the session holds changes of an update that raised: executed statements
\* or unflushed changes that the committed store does not have
HoldsFailedUpdate ==
    \/ session.txn # Store
    \/ flush(session.txn, session.pending) # Store

\* the committed store after the step is the one the same call leaves when
\* it is made through a session that holds nothing
CommitsOwnChangesOnly ==
    \/ /\ response'.op = "crud.create_contact"
       /\ \E contact \in SessionCreateRequests :
             Store' = crud_create_contact(Store, contact).db
    \/ /\ response'.op = "crud.update_contact"
       /\ \E contact_id \in RequestIds, contact_update \in SessionUpdateRequests :
             /\ crud_get_contact(Store, contact_id) # "None"
             /\ Store' = crud_update_contact(Store, contact_id, contact_update).db
    \/ /\ response'.op = "crud.delete_contact"
       /\ \E contact_id \in RequestIds :
             Store' = crud_delete_contact(Store, contact_id).db

\* C23: when update_contact raises the conflict error, the changes it had
\* applied before the failing check are never committed: the call itself
\* commits nothing, and a later create, update or delete that succeeds
\* through the same session commits its own changes only.
C23_FailedUpdateNeverCommitted ==
    [][/\ response'.op = "crud.update_contact" /\ response'.body[1] = "ValueError"
          => UNCHANGED StoreVars
       /\ HoldsFailedUpdate /\ response'.body[1] = "none" /\ session' = Fresh(Store')
          => CommitsOwnChangesOnly]_vars

\* the contact lists a request for one page of a listing may be answered with
PageAnswers(page, page_size, sort_by, sort_order) ==
    {result.contacts :
        result \in crud_get_contacts(Store', (page - 1) * page_size, page_size,
                                     sort_by, sort_order)}

\* one answer for each of the pages 1 .. total_pages of a listing, the store
\* staying as it is between the requests
Walks(page_size, sort_by, sort_order) ==
    LET total_pages == (Cardinality(DOMAIN contacts') + page_size - 1) \div page_size
        Answers(page) == PageAnswers(page, page_size, sort_by, sort_order)
    IN  {walk \in [1..total_pages -> UNION {Answers(page) : page \in 1..total_pages}] :
            \A page \in 1..total_pages : walk[page] \in Answers(page)}

\* every stored contact is at exactly one place of exactly one page
ExactlyOnce(walk) ==
    \A id \in DOMAIN contacts' :
        Cardinality({place \in UNION {{<<page, i>> : i \in DOMAIN walk[page]} :
                                          page \in DOMAIN walk} :
                        walk[place[1]][place[2]] = id}) = 1

====
